---- MODULE Spec2Model ----
(***************************************************************************)
(* Inventory ledger of Inventory_Managment_System.                         *)
(*                                                                         *)
(* The repository holds two variants of the same ledger:                   *)
(*   - "parts":    database.py (first Database class) and                  *)
(*                 controllers/inventory_controller.py, over the tables    *)
(*                 parts and transactions;                                 *)
(*   - "products": database.py (second Database class), models/*.py and    *)
(*                 controllers/main_controller.py, over the tables         *)
(*                 products and transactions.                              *)
(* A store is built by one of the two _create_tables; schema records       *)
(* which.  Every action is one whole call of the source, run to its        *)
(* commit, rollback or exception.                                          *)
(***************************************************************************)
EXTENDS Integers, Sequences, FiniteSets, TLC

\* ---------------------------------------------------------------- bounds
\* Rows the AUTOINCREMENT key of parts / products may hand out.
MaxItems == 2
\* Rows the AUTOINCREMENT key of transactions may hand out.
MaxTx == 2
\* Stock level up to which an interrupted add_stock is followed.
MaxQuantity == 3
\* Seconds the wall clock is followed for.
MaxNow == 1
\* Columns one update_data dictionary names.
MaxColumns == 1
\* Product objects a caller holds at a time.
MaxInstances == 2

\* ---------------------------------------------------------------- inputs
\* part_number / name values a caller supplies.
PartNumbers == {"A", "B"}
\* current_stock / quantity values a caller supplies on create and update.
Stocks == {-1, 0, 1}
\* unit_cost / cost values a caller supplies.
UnitCosts == {-1, 1}
\* min_stock / min_quantity values a caller supplies.
MinStocks == {1}
\* quantity arguments of the stock operations.
Quantities == {-1, 0, 1}
\* Python's None for an optional argument is the empty tuple, a supplied
\* value x the tuple <<x>>.
None == << >>
\* unit_price arguments of the stock operations.
UnitPrices == {None, <<3>>}
\* ids a caller may name (an id not handed out yet, or deleted, is unknown).
Ids == 1..MaxItems

VARIABLES
    schema,          \* which _create_tables built the store
    parts,           \* table parts: id -> row
    products,        \* table products: id -> row
    transactions,    \* table transactions, in insertion order
    sqlite_sequence, \* AUTOINCREMENT: last key handed out, per table
    now,             \* the wall clock, in whole seconds since the first transaction
    instances,       \* the Product objects a caller holds: handle -> attributes
    last             \* the call that ran last and how it ended

vars == <<schema, now, instances, parts, products, transactions,
          sqlite_sequence, last>>

store == <<parts, products, transactions>>

\* ------------------------------------------------------------- the store
\* The result of a call: what was called, on which id, with which quantity
\* and unit_price, and how it returned ("ok", a returned value, or the
\* exception raised).  code is the part_number / name the call was given,
\* threshold the threshold a low-stock query was given and result the rows
\* a query returned, None where there is none.  messagebox is the dialog a
\* controller or view raised before it returned ("showinfo", "showerror",
\* "none"), refreshed whether it reloaded the list its view shows,
\* search_term the term a search was given, total_value the inventory
\* value a report printed, handle the Product object a method was called
\* on (0 where there is none) and columns the keys of the update_data an
\* update was given.
Call(op, id, quantity, unit_price, outcome) ==
    [op |-> op, id |-> id, quantity |-> quantity,
     unit_price |-> unit_price, outcome |-> outcome,
     code |-> None, threshold |-> None, result |-> None,
     messagebox |-> "none", refreshed |-> FALSE, search_term |-> None,
     total_value |-> None, handle |-> 0, columns |-> {}]

\* The call, made by a handler that raised the dialog `messagebox` and did
\* or did not reload its view.
Shown(call, messagebox, refreshed) ==
    [call EXCEPT !.messagebox = messagebox, !.refreshed = refreshed]

\* The call, given the part_number / name `code`.
Coded(call, code) == [call EXCEPT !.code = <<code>>]

\* The call, a query that returned `result`.
Returned(call, result) == [call EXCEPT !.result = <<result>>]

\* A call that raised or returned early: everything rolled back.
Fails(op, id, quantity, unit_price, outcome) ==
    /\ last' = Call(op, id, quantity, unit_price, outcome)
    /\ UNCHANGED <<schema, now, instances, parts, products, transactions, sqlite_sequence>>

\* A call given a part_number / name that raised or returned early.
FailsCoded(code, op, id, quantity, outcome) ==
    /\ last' = Coded(Call(op, id, quantity, None, outcome), code)
    /\ UNCHANGED <<schema, now, instances, parts, products, transactions, sqlite_sequence>>

\* A handler that caught an exception or refused its input: an error dialog,
\* nothing written, the view not reloaded.
ShowsError(call) ==
    /\ last' = Shown(call, "showerror", FALSE)
    /\ UNCHANGED <<schema, now, instances, parts, products, transactions, sqlite_sequence>>

\* UNIQUE(part_number) of the parts table: the row `self` may take pn.
PartNumberUnique(pn, self) ==
    \A i \in DOMAIN parts : i # self => parts[i].part_number # pn

\* cursor.lastrowid of an INSERT into an AUTOINCREMENT table.
LastRowId(table) == sqlite_sequence[table] + 1

\* INSERT INTO parts (...) VALUES (...).
InsertedPart(pn, cs, ms, uc) ==
    [i \in DOMAIN parts \cup {LastRowId("parts")} |->
        IF i = LastRowId("parts")
        THEN [part_number |-> pn, current_stock |-> cs, min_stock |-> ms,
              unit_cost |-> uc]
        ELSE parts[i]]

\* AdjustedStock with a stock level that never goes below zero.
AdjustedStockFloored(current_stock, transaction_type, quantity) ==
    IF transaction_type = "IN"
    THEN current_stock + quantity
    ELSE IF current_stock - quantity < 0 THEN 0 ELSE current_stock - quantity

\* The stock level an IN / OUT transaction leaves.
AdjustedStock(current_stock, transaction_type, quantity) ==
    IF transaction_type = "IN"
    THEN current_stock + quantity
    ELSE current_stock - quantity

\* created_at DEFAULT CURRENT_TIMESTAMP: the clock to the second, as the
\* pair <<second, fraction of it>>.
CurrentTimestamp == <<now, 0>>

\* The row _record_transaction inserts.
TransactionRow(part_id, transaction_type, quantity, unit_price, reference) ==
    [id |-> LastRowId("transactions"), part_id |-> part_id,
     transaction_type |-> transaction_type, quantity |-> quantity,
     unit_price |-> unit_price, reference |-> reference,
     created_at |-> CurrentTimestamp]

\* --------------------------------------------------------------- initial
Init ==
    /\ schema \in {"parts", "products"}
    /\ parts = << >>
    /\ products = << >>
    /\ transactions = << >>
    /\ sqlite_sequence = [parts |-> 0, products |-> 0, transactions |-> 0]
    /\ now = 0
    /\ instances = << >>
    /\ last = Call("init", 0, 0, None, "ok")

\* ------------------------------------------------- parts: Database class
\* Database._record_transaction on its own connection: INSERT the row,
\* UPDATE parts ... WHERE id = part_id (no row when the id is unknown: the
\* foreign key is declared but never enforced), one commit.
RecordTransaction(part_id, transaction_type, quantity, unit_price, reference) ==
    /\ transactions' = Append(transactions,
          TransactionRow(part_id, transaction_type, quantity, unit_price, reference))
    /\ sqlite_sequence' = [sqlite_sequence EXCEPT !.transactions = @ + 1]
    /\ parts' = [i \in DOMAIN parts |->
          IF i = part_id
          THEN [parts[i] EXCEPT !.current_stock =
                   AdjustedStock(@, transaction_type, quantity)]
          ELSE parts[i]]

\* Database.insert_part(part_data).  The INSERT runs on connection A and
\* leaves A's write transaction open; a duplicate part_number raises
\* IntegrityError, re-raised as ValueError.  With current_stock > 0 the
\* seed is written by _record_transaction on a second connection B while A
\* still holds the write lock: B's INSERT raises OperationalError
\* ("database is locked") and A is rolled back on the way out.
InsertPart(pn, cs, ms, uc) ==
    /\ schema = "parts"
    /\ sqlite_sequence.parts < MaxItems
    /\ IF ~PartNumberUnique(pn, 0)
       THEN FailsCoded(pn, "insert_part", 0, cs, "ValueError")
       ELSE IF cs > 0
       THEN FailsCoded(pn, "insert_part", 0, cs, "OperationalError")
       ELSE /\ parts' = InsertedPart(pn, cs, ms, uc)
            /\ sqlite_sequence' = [sqlite_sequence EXCEPT !.parts = @ + 1]
            /\ last' = Coded(Call("insert_part", LastRowId("parts"), cs, None, "ok"), pn)
            /\ UNCHANGED <<schema, now, instances, products, transactions>>

\* The update_data dictionaries a caller may pass to update_part: a
\* subset of the columns, each with a value.
Columns == {"part_number", "current_stock", "min_stock", "unit_cost"}

UpdateDatas ==
    { [k \in K |-> IF k = "part_number" THEN pn
                   ELSE IF k = "current_stock" THEN cs
                   ELSE IF k = "min_stock" THEN ms ELSE uc] :
        K \in {C \in SUBSET Columns : Cardinality(C) <= MaxColumns},
        pn \in PartNumbers, cs \in Stocks, ms \in MinStocks, uc \in UnitCosts }

\* The part_number an update_data carries, None when it carries none.
CodeOf(update_data) ==
    IF "part_number" \in DOMAIN update_data
    THEN <<update_data["part_number"]>> ELSE None

\* UPDATE parts SET <the keys of update_data> that also resets the stock.
UpdatedRowStockReset(row, update_data) ==
    [k \in DOMAIN row |-> IF k \in DOMAIN update_data THEN update_data[k]
                          ELSE IF k = "current_stock" THEN 0 ELSE row[k]]

\* UPDATE parts SET <the keys of update_data> WHERE id = part_id.
UpdatedRow(row, update_data) ==
    [k \in DOMAIN row |-> IF k \in DOMAIN update_data THEN update_data[k] ELSE row[k]]

\* Database.update_part(part_id, update_data).
UpdatePart(part_id, update_data) ==
    /\ schema = "parts"
    /\ IF DOMAIN update_data = {}
       THEN Fails("update_part", part_id, 0, None, "False")
       ELSE IF part_id \notin DOMAIN parts
       THEN /\ last' = [Call("update_part", part_id, 0, None, "False")
                           EXCEPT !.code = CodeOf(update_data),
                                  !.columns = DOMAIN update_data]
            /\ UNCHANGED <<schema, now, instances, parts, products, transactions, sqlite_sequence>>
       ELSE IF /\ "part_number" \in DOMAIN update_data
               /\ ~PartNumberUnique(update_data["part_number"], part_id)
       THEN /\ last' = [Call("update_part", part_id, 0, None, "IntegrityError")
                           EXCEPT !.code = CodeOf(update_data),
                                  !.columns = DOMAIN update_data]
            /\ UNCHANGED <<schema, now, instances, parts, products, transactions, sqlite_sequence>>
       ELSE /\ parts' = [parts EXCEPT ![part_id] = UpdatedRow(@, update_data)]
            /\ last' = [Call("update_part", part_id, 0, None, "True")
                           EXCEPT !.code = CodeOf(update_data),
                                  !.columns = DOMAIN update_data]
            /\ UNCHANGED <<schema, now, instances, products, transactions, sqlite_sequence>>

\* DELETE FROM transactions, of every part.
WithoutTransactions(part_id) == << >>

\* DELETE FROM transactions WHERE part_id = ?.
WithoutTransactionsOf(part_id) ==
    SelectSeq(transactions, LAMBDA t : t.part_id # part_id)

\* DELETE FROM parts WHERE id = ?.
WithoutPart(part_id) ==
    [i \in DOMAIN parts \ {part_id} |-> parts[i]]

\* Database.delete_part(part_id): both DELETEs on one connection, one
\* commit; returns whether a parts row went.
DeletePart(part_id) ==
    /\ schema = "parts"
    /\ transactions' = WithoutTransactionsOf(part_id)
    /\ parts' = WithoutPart(part_id)
    /\ last' = Call("delete_part", part_id, 0, None,
                    IF part_id \in DOMAIN parts THEN "True" ELSE "False")
    /\ UNCHANGED <<schema, now, instances, products, sqlite_sequence>>

\* StockInRejects letting a quantity of 0 through.
StockInRejectsNegative(quantity) == quantity < 0

\* The guard of stock_in and of stock_out: quantity <= 0 raises ValueError.
StockInRejects(quantity) == quantity <= 0

StockOutRejects(quantity) == quantity <= 0

\* Database.stock_in(part_id, quantity, unit_price).
StockIn(part_id, quantity, unit_price) ==
    /\ schema = "parts"
    /\ sqlite_sequence.transactions < MaxTx
    /\ IF StockInRejects(quantity)
       THEN Fails("stock_in", part_id, quantity, <<unit_price>>, "ValueError")
       ELSE /\ RecordTransaction(part_id, "IN", quantity, unit_price, "NULL")
            /\ last' = Call("stock_in", part_id, quantity, <<unit_price>>, "ok")
            /\ UNCHANGED <<schema, now, instances, products>>

\* Database.stock_out(part_id, quantity, unit_price = None): an omitted
\* unit_price is read from the part (get_part), and only then is an unknown
\* part_id noticed.
StockOut(part_id, quantity, unit_price) ==
    /\ schema = "parts"
    /\ sqlite_sequence.transactions < MaxTx
    /\ IF StockOutRejects(quantity)
       THEN Fails("stock_out", part_id, quantity, unit_price, "ValueError")
       ELSE IF unit_price = None /\ part_id \notin DOMAIN parts
       THEN Fails("stock_out", part_id, quantity, unit_price, "NotFound")
       ELSE /\ RecordTransaction(part_id, "OUT", quantity,
                   IF unit_price = None THEN parts[part_id].unit_cost
                   ELSE unit_price[1], "NULL")
            /\ last' = Call("stock_out", part_id, quantity, unit_price, "ok")
            /\ UNCHANGED <<schema, now, instances, products>>

\* ------------------------------------------- parts: InventoryController
\* InventoryController.save_part(part_data): an empty part_number is
\* refused; a part_data with an id runs UPDATE parts SET <every column>
\* WHERE id = ? (no row when the id is unknown), one without runs INSERT
\* INTO parts; a duplicate part_number raises IntegrityError, which the
\* handler catches (the connection rolls back) and returns False on.
SavePart(id, pn, cs, ms, uc) ==
    /\ schema = "parts"
    /\ IF pn = ""
       THEN ShowsError(Coded(Call("save_part", 0, cs, None, "False"), pn))
       ELSE IF id # None
       THEN IF ~PartNumberUnique(pn, id[1]) /\ id[1] \in DOMAIN parts
            THEN ShowsError(Coded(Call("save_part:update", id[1], 0, None, "False"), pn))
            ELSE /\ parts' = [i \in DOMAIN parts |->
                      IF i = id[1]
                      THEN [part_number |-> pn, current_stock |-> cs,
                            min_stock |-> ms, unit_cost |-> uc]
                      ELSE parts[i]]
                 /\ last' = Shown(Coded(Call("save_part:update", id[1], 0, None, "True"),
                                       pn), "showinfo", TRUE)
                 /\ UNCHANGED <<schema, now, instances, products, transactions, sqlite_sequence>>
       ELSE /\ sqlite_sequence.parts < MaxItems
            /\ IF ~PartNumberUnique(pn, 0)
               THEN ShowsError(Coded(Call("save_part:insert", 0, cs, None, "False"), pn))
               ELSE /\ parts' = InsertedPart(pn, cs, ms, uc)
                    /\ sqlite_sequence' = [sqlite_sequence EXCEPT !.parts = @ + 1]
                    /\ last' = Shown(Coded(Call("save_part:insert", LastRowId("parts"),
                                               cs, None, "True"), pn),
                                     "showinfo", TRUE)
                    /\ UNCHANGED <<schema, now, instances, products, transactions>>

\* InventoryController.delete_selected_part, the deletion confirmed: the
\* selected row is one of the listed parts; both DELETEs, one commit.
DeleteSelectedPart(selected) ==
    /\ schema = "parts"
    /\ selected \in DOMAIN parts
    /\ transactions' = WithoutTransactionsOf(selected)
    /\ parts' = WithoutPart(selected)
    /\ last' = Shown(Call("delete_selected_part", selected, 0, None, "ok"),
                     "showinfo", TRUE)
    /\ UNCHANGED <<schema, now, instances, products, sqlite_sequence>>

NextParts ==
    \/ \E pn \in PartNumbers, cs \in Stocks, ms \in MinStocks, uc \in UnitCosts :
          InsertPart(pn, cs, ms, uc)
    \/ \E id \in Ids, d \in UpdateDatas : UpdatePart(id, d)
    \/ \E id \in Ids : DeletePart(id)
    \/ \E id \in Ids, q \in Quantities, p \in UnitPrices \ {None} : StockIn(id, q, p[1])
    \/ \E id \in Ids, q \in Quantities, p \in UnitPrices : StockOut(id, q, p)
    \/ \E id \in {None} \cup {<<i>> : i \in Ids}, pn \in PartNumbers \cup {""},
          cs \in Stocks, ms \in MinStocks, uc \in UnitCosts :
              SavePart(id, pn, cs, ms, uc)
    \/ \E id \in Ids : DeleteSelectedPart(id)

\* --------------------------------------- products: models and controller
\* BaseModel.create for a Product: INSERT INTO products, committed.  The
\* products table declares no UNIQUE(name).
InsertedProduct(name, quantity, min_quantity, cost) ==
    [i \in DOMAIN products \cup {LastRowId("products")} |->
        IF i = LastRowId("products")
        THEN [name |-> name, quantity |-> quantity,
              min_quantity |-> min_quantity, cost |-> cost]
        ELSE products[i]]

\* MainController.add_product(product_data): Product(**product_data).save().
AddProduct(name, quantity, min_quantity, cost) ==
    /\ sqlite_sequence.products < MaxItems
    /\ products' = InsertedProduct(name, quantity, min_quantity, cost)
    /\ sqlite_sequence' = [sqlite_sequence EXCEPT !.products = @ + 1]
    /\ last' = Shown(Coded(Call("add_product", LastRowId("products"), quantity,
                               None, "ok"), name), "showinfo", TRUE)
    /\ UNCHANGED <<schema, now, instances, parts, transactions>>

\* MainController.update_product(product_id, product_data): the product is
\* loaded, every key of the form (quantity among them) is set on it and
\* BaseModel.update writes every column back; an unknown id does nothing.
UpdateProduct(product_id, name, quantity, min_quantity, cost) ==
    IF product_id \notin DOMAIN products
    THEN FailsCoded(name, "update_product", product_id, 0, "None")
    ELSE /\ products' = [products EXCEPT ![product_id] =
                [name |-> name, quantity |-> quantity,
                 min_quantity |-> min_quantity, cost |-> cost]]
         /\ last' = Shown(Coded(Call("update_product", product_id, 0, None, "ok"),
                               name), "showinfo", TRUE)
         /\ UNCHANGED <<schema, now, instances, parts, transactions, sqlite_sequence>>

\* ProductFormView._on_save: the form is validated, then handed to
\* update_product (an edit) or add_product.
FormValid(name, quantity, min_quantity, cost) ==
    /\ name # ""
    /\ cost >= 0
    /\ quantity >= 0
    /\ min_quantity >= 0

OnSave(is_edit, product_id, name, quantity, min_quantity, cost) ==
    /\ schema = "products"
    /\ IF ~FormValid(name, quantity, min_quantity, cost)
       THEN ShowsError(Coded(Call("on_save", 0, quantity, None, "invalid"), name))
       ELSE IF is_edit
       THEN UpdateProduct(product_id, name, quantity, min_quantity, cost)
       ELSE AddProduct(name, quantity, min_quantity, cost)

\* BaseModel.delete on a Product: DELETE FROM products WHERE id = ?, and
\* nothing else.
WithoutProduct(product_id) ==
    [i \in DOMAIN products \ {product_id} |-> products[i]]

\* MainController.delete_product(product_id): an unknown id does nothing.
DeleteProduct(product_id) ==
    /\ schema = "products"
    /\ IF product_id \notin DOMAIN products
       THEN Fails("delete_product", product_id, 0, None, "None")
       ELSE /\ products' = WithoutProduct(product_id)
            /\ last' = Shown(Call("delete_product", product_id, 0, None, "ok"),
                             "none", TRUE)
            /\ UNCHANGED <<schema, now, instances, parts, transactions, sqlite_sequence>>

\* created_at = datetime.now() of Transaction.__init__: the clock to the
\* microsecond; a later call reads a later fraction of the second.
DatetimeNow == <<now, LastRowId("transactions")>>

\* The Transaction row add_stock / remove_stock save.
ProductTransactionRow(product_id, transaction_type, quantity, unit_price) ==
    [id |-> LastRowId("transactions"), product_id |-> product_id,
     transaction_type |-> transaction_type, quantity |-> quantity,
     unit_price |-> unit_price, total_price |-> quantity * unit_price,
     created_at |-> DatetimeNow]

\* Transaction(...).save(): INSERT INTO transactions, committed.
SaveTransaction(product_id, transaction_type, quantity, unit_price) ==
    /\ transactions' = Append(transactions,
          ProductTransactionRow(product_id, transaction_type, quantity, unit_price))
    /\ sqlite_sequence' = [sqlite_sequence EXCEPT !.transactions = @ + 1]

\* Product.save() of a loaded product whose quantity attribute was changed:
\* UPDATE products SET <every column> WHERE id = ?, committed.
SaveQuantity(product_id, quantity) ==
    products' = [products EXCEPT ![product_id].quantity = quantity]

\* The guards of add_stock and remove_stock.
AddStockRejects(quantity) == quantity <= 0

RemoveStockRejects(quantity) == quantity <= 0

\* InsufficientStock letting a removal overdraw the stock by one.
InsufficientStockBeyondOne(quantity, current) == quantity > current + 1

InsufficientStock(quantity, current) == quantity > current

\* remove_stock records a transaction only when a unit_price was passed.
RecordsRemoval(unit_price) == unit_price # None

\* Product.get_by_id(product_id).add_stock(quantity, unit_price), as
\* MainController.process_stock_in runs it: an unknown id does nothing.
AddStock(product_id, quantity, unit_price) ==
    /\ schema = "products"
    /\ sqlite_sequence.transactions < MaxTx
    /\ IF product_id \notin DOMAIN products
       THEN Fails("add_stock", product_id, quantity, <<unit_price>>, "None")
       ELSE IF AddStockRejects(quantity)
       THEN ShowsError(Call("add_stock", product_id, quantity, <<unit_price>>,
                            "ValueError"))
       ELSE /\ SaveQuantity(product_id, products[product_id].quantity + quantity)
            /\ SaveTransaction(product_id, "IN", quantity, unit_price)
            /\ last' = Shown(Call("add_stock", product_id, quantity, <<unit_price>>,
                                  "ok"), "showinfo", TRUE)
            /\ UNCHANGED <<schema, now, instances, parts>>

\* Product.get_by_id(product_id).remove_stock(quantity, unit_price = None),
\* as MainController.process_stock_out runs it.
RemoveStock(product_id, quantity, unit_price) ==
    /\ schema = "products"
    /\ sqlite_sequence.transactions < MaxTx
    /\ IF product_id \notin DOMAIN products
       THEN Fails("remove_stock", product_id, quantity, unit_price, "None")
       ELSE IF RemoveStockRejects(quantity)
       THEN ShowsError(Call("remove_stock", product_id, quantity, unit_price,
                            "ValueError"))
       ELSE IF InsufficientStock(quantity, products[product_id].quantity)
       THEN ShowsError(Call("remove_stock", product_id, quantity, unit_price,
                            "Insufficient"))
       ELSE /\ SaveQuantity(product_id, products[product_id].quantity - quantity)
            /\ IF RecordsRemoval(unit_price)
               THEN SaveTransaction(product_id, "OUT", quantity, unit_price[1])
               ELSE UNCHANGED <<transactions, sqlite_sequence>>
            /\ last' = Shown(Call("remove_stock", product_id, quantity, unit_price,
                                  "ok"), "showinfo", TRUE)
            /\ UNCHANGED <<schema, now, instances, parts>>

NextProducts ==
    \/ \E e \in BOOLEAN, id \in Ids, n \in PartNumbers \cup {""},
          q \in Stocks, m \in MinStocks, c \in UnitCosts : OnSave(e, id, n, q, m, c)
    \/ \E id \in Ids : DeleteProduct(id)
    \/ \E id \in Ids, q \in Quantities, p \in UnitPrices \ {None} : AddStock(id, q, p[1])
    \/ \E id \in Ids, q \in Quantities, p \in UnitPrices : RemoveStock(id, q, p)

\* A second passes.  The clock counts from the second of the first
\* transaction, and is followed until the last transaction is recorded.
Tick ==
    /\ now < MaxNow
    /\ sqlite_sequence.transactions \in 1..(MaxTx - 1)
    /\ now' = now + 1
    /\ UNCHANGED <<schema, instances, parts, products, transactions,
                   sqlite_sequence, last>>

Next ==
    \/ NextParts
    \/ NextProducts

\* Every call within one second of the clock.
Spec == Init /\ [][Next]_vars

\* The calls, with the clock running.
NextClock ==
    \/ Next
    \/ Tick

SpecClock == Init /\ [][NextClock]_vars

\* ---------------------------------------------------------- the queries
\* created_at value a is later than b, as SQLite compares the two stored
\* timestamps.
Later(a, b) == a[1] > b[1] \/ (a[1] = b[1] /\ a[2] > b[2])

\* ORDER BY created_at DESC over rows scanned in rowid order: a row goes
\* before the rows with an earlier created_at, and after the rows already
\* placed that have the same or a later one.
RECURSIVE InsertDesc(_, _)
InsertDesc(sorted, t) ==
    IF sorted = << >> THEN <<t>>
    ELSE IF Later(t.created_at, Head(sorted).created_at) THEN <<t>> \o sorted
    ELSE <<Head(sorted)>> \o InsertDesc(Tail(sorted), t)

RECURSIVE OrderByCreatedAtDesc(_)
OrderByCreatedAtDesc(rows) ==
    IF rows = << >> THEN << >>
    ELSE InsertDesc(OrderByCreatedAtDesc(SubSeq(rows, 1, Len(rows) - 1)),
                    rows[Len(rows)])

\* Database.get_part_transactions(part_id), no limit and no dates:
\* transactions JOIN parts WHERE t.part_id = ? ORDER BY t.created_at DESC.
GetPartTransactions(part_id) ==
    OrderByCreatedAtDesc(SelectSeq(transactions,
        LAMBDA t : t.part_id = part_id /\ t.part_id \in DOMAIN parts))

\* Transaction.get_by_product(product_id): transactions JOIN products
\* WHERE t.product_id = ? ORDER BY t.created_at DESC.
GetByProduct(product_id) ==
    OrderByCreatedAtDesc(SelectSeq(transactions,
        LAMBDA t : t.product_id = product_id /\ t.product_id \in DOMAIN products))

\* ------------------------------------------------ views and reports
\* Each of these reads the store, classifies or selects the items and
\* leaves the store as it is; result is what it shows or returns.
Reads(op, result) ==
    /\ last' = Returned(Call(op, 0, 0, None, "ok"), result)
    /\ UNCHANGED <<schema, now, instances, parts, products, transactions, sqlite_sequence>>

\* MainView.update_parts_list: the tag of one row of the part list.
PartsListTag(item) ==
    IF item.current_stock <= 0 THEN "out_of_stock"
    ELSE IF item.current_stock < item.min_stock THEN "low_stock"
    ELSE ""

\* InventoryController.load_parts: every part, through update_parts_list.
UpdatePartsList ==
    /\ schema = "parts"
    /\ Reads("update_parts_list", [i \in DOMAIN parts |-> PartsListTag(parts[i])])

\* Sum of the stock levels of the parts `ids`.
RECURSIVE TotalStock(_)
TotalStock(ids) ==
    IF ids = {} THEN 0
    ELSE LET i == CHOOSE i \in ids : TRUE
         IN  parts[i].current_stock + TotalStock(ids \ {i})

\* total_value of generate_inventory_report:
\* sum(p.get('current_stock', 0) * p.get('unit_cost', 0) for p in parts).
RECURSIVE TotalValue(_)
TotalValue(ids) ==
    IF ids = {} THEN 0
    ELSE LET i == CHOOSE i \in ids : TRUE
         IN  parts[i].current_stock * parts[i].unit_cost + TotalValue(ids \ {i})

\* ReportController.generate_inventory_report(parts), handed the parts the
\* controller loaded: the parts listed under "Partes con bajo stock" and
\* the "Valor total del inventario"; an empty part list raises ValueError.
ReportControllerInventoryReport ==
    /\ schema = "parts"
    /\ IF DOMAIN parts = {}
       THEN Fails("report_controller_inventory_report", 0, 0, None, "ValueError")
       ELSE /\ last' = [Returned(Call("report_controller_inventory_report", 0, 0,
                                      None, "ok"),
                    {i \in DOMAIN parts : parts[i].current_stock < parts[i].min_stock})
                    EXCEPT !.total_value = <<TotalValue(DOMAIN parts)>>]
            /\ UNCHANGED <<schema, now, instances, parts, products, transactions, sqlite_sequence>>

\* MainController._update_dashboard: the counts of the dashboard.
UpdateDashboard ==
    /\ schema = "products"
    /\ Reads("update_dashboard",
          [total_items |-> Cardinality(DOMAIN products),
           low_stock |-> Cardinality({i \in DOMAIN products :
               products[i].quantity <= products[i].min_quantity
               /\ products[i].quantity > 0}),
           out_of_stock |-> Cardinality({i \in DOMAIN products :
               products[i].quantity <= 0})])

\* ProductView._get_status(product).
GetStatus(product) ==
    IF product.quantity <= 0 THEN "Out of Stock"
    ELSE IF product.quantity <= product.min_quantity THEN "Low Stock"
    ELSE "In Stock"

\* ProductView.update_products: the status column of the product list.
UpdateProducts ==
    /\ schema = "products"
    /\ Reads("update_products", [i \in DOMAIN products |-> GetStatus(products[i])])

\* ReportGenerator.generate_inventory_report(products): the Status column
\* of the table.
ReportStatus(product) ==
    IF product.quantity <= 0 THEN "Out of Stock"
    ELSE IF product.quantity <= product.min_quantity THEN "Low Stock"
    ELSE "In Stock"

ReportGeneratorInventoryReport ==
    /\ schema = "products"
    /\ Reads("report_generator_inventory_report",
          [i \in DOMAIN products |-> ReportStatus(products[i])])

\* ORDER BY current_stock ASC over the ids `ids` of parts, scanned in
\* rowid order: a row goes after the rows already placed that hold the
\* same stock or less.
RECURSIVE InsertAsc(_, _)
InsertAsc(sorted, i) ==
    IF sorted = << >> THEN <<i>>
    ELSE IF parts[i].current_stock < parts[Head(sorted)].current_stock
    THEN <<i>> \o sorted
    ELSE <<Head(sorted)>> \o InsertAsc(Tail(sorted), i)

RECURSIVE OrderByCurrentStockAsc(_)
OrderByCurrentStockAsc(ids) ==
    IF ids = {} THEN << >>
    ELSE LET top == CHOOSE i \in ids : \A j \in ids : j <= i
         IN  InsertAsc(OrderByCurrentStockAsc(ids \ {top}), top)

\* threshold arguments of the low-stock queries.
Thresholds == {None, <<0>>, <<1>>}

\* Database.get_low_stock(threshold = None): the ids of the rows returned.
GetLowStock(threshold) ==
    /\ schema = "parts"
    /\ last' = [Returned(Call("get_low_stock", 0, 0, None, "ok"),
          OrderByCurrentStockAsc(
              IF threshold # None
              THEN {i \in DOMAIN parts : parts[i].current_stock < threshold[1]}
              ELSE {i \in DOMAIN parts : parts[i].current_stock < parts[i].min_stock}))
          EXCEPT !.threshold = threshold]
    /\ UNCHANGED <<schema, now, instances, parts, products, transactions, sqlite_sequence>>

\* Product.get_low_stock_products(threshold = None).  The method takes cls
\* but is not declared a classmethod, and product.py never imports
\* Database: called on the class it raises TypeError (cls is missing),
\* called on a product it raises NameError at db = Database().  Its SELECT
\* ... WHERE quantity <= min_quantity is never reached.
GetLowStockProducts(on_class, threshold) ==
    /\ schema = "products"
    /\ last' = [Call("get_low_stock_products", 0, 0, None,
                     IF on_class /\ threshold = None THEN "TypeError" ELSE "NameError")
                    EXCEPT !.threshold = threshold]
    /\ UNCHANGED <<schema, now, instances, parts, products, transactions, sqlite_sequence>>

NextQuery ==
    \/ UpdatePartsList
    \/ ReportControllerInventoryReport
    \/ UpdateDashboard
    \/ UpdateProducts
    \/ ReportGeneratorInventoryReport
    \/ \E t \in Thresholds : GetLowStock(t)
    \/ \E c \in BOOLEAN, t \in Thresholds : GetLowStockProducts(c, t)

\* The stock levels and minimum levels of the stores the views and reports
\* are run on.
QueryStocks == -1..2

QueryMins == 0..2

\* The unit costs of the parts reported on.
QueryCosts == {1, 2}

\* A store of up to MaxItems items and no transactions, as the calls above
\* can leave it: a part holds any stock level (save_part writes the column
\* as typed), a product none below zero (the form and remove_stock refuse).
InitQuery ==
    /\ schema \in {"parts", "products"}
    /\ \E n \in 0..MaxItems :
          \E code \in [1..n -> PartNumbers], qs \in [1..n -> QueryStocks],
             ms \in [1..n -> QueryMins], uc \in [1..n -> QueryCosts] :
              /\ schema = "parts" => \A i, j \in 1..n : code[i] = code[j] => i = j
              /\ schema = "products" => \A i \in 1..n : qs[i] >= 0 /\ uc[i] = 1
              /\ parts = IF schema # "parts" THEN << >>
                         ELSE [i \in 1..n |->
                                  [part_number |-> code[i], current_stock |-> qs[i],
                                   min_stock |-> ms[i], unit_cost |-> uc[i]]]
              /\ products = IF schema # "products" THEN << >>
                            ELSE [i \in 1..n |->
                                     [name |-> code[i], quantity |-> qs[i],
                                      min_quantity |-> ms[i], cost |-> 1]]
              /\ sqlite_sequence =
                    [parts |-> IF schema = "parts" THEN n ELSE 0,
                     products |-> IF schema = "products" THEN n ELSE 0,
                     transactions |-> 0]
    /\ transactions = << >>
    /\ now = 0
    /\ instances = << >>
    /\ last = Call("init", 0, 0, None, "ok")

SpecQuery == InitQuery /\ [][NextQuery]_vars

\* ------------------------------------------------------------- search
\* Text here is a sequence of characters, so that case and containment are
\* computed; a column holding NULL reads as Python's None.
Chars == {"B", "b", "N", "n", "O", "o", "e"}

\* The code points of the characters, by which sqlite orders TEXT (BINARY).
Ord(c) ==
    CASE c = "B" -> 66 [] c = "N" -> 78 [] c = "O" -> 79
      [] c = "b" -> 98 [] c = "e" -> 101 [] c = "n" -> 110 [] c = "o" -> 111

\* str.lower() of one character and of a text.
LowerChar(c) ==
    CASE c = "B" -> "b" [] c = "N" -> "n" [] c = "O" -> "o" [] OTHER -> c

Lower(text) == [k \in 1..Len(text) |-> LowerChar(text[k])]

\* str(value): the text itself, and "None" for None.
Str(value) == IF value = None THEN <<"N", "o", "n", "e">> ELSE value[1]

\* Python's `term in text`.
In(term, text) ==
    \E k \in 0..(Len(text) - Len(term)) : SubSeq(text, k + 1, k + Len(term)) = term

\* part_number a < part_number b in sqlite's BINARY collation.
RECURSIVE TextLess(_, _)
TextLess(a, b) ==
    IF b = << >> THEN FALSE
    ELSE IF a = << >> THEN TRUE
    ELSE IF Ord(Head(a)) # Ord(Head(b)) THEN Ord(Head(a)) < Ord(Head(b))
    ELSE TextLess(Tail(a), Tail(b))

\* SELECT * FROM parts ORDER BY part_number: the ids `ids` in that order.
RECURSIVE OrderByPartNumber(_)
OrderByPartNumber(ids) ==
    IF ids = {} THEN << >>
    ELSE LET first == CHOOSE i \in ids : \A j \in ids \ {i} :
                          TextLess(parts[i].part_number, parts[j].part_number)
         IN  <<first>> \o OrderByPartNumber(ids \ {first})

\* InventoryController.filter_parts(search_term) over one loaded row.
FilterParts(p, search_term) ==
    \/ In(Lower(search_term), Lower(Str(<<p.part_number>>)))
    \/ In(Lower(search_term), Lower(Str(p.description)))
    \/ In(Lower(search_term), Lower(Str(p.category)))

\* InventoryController.search_parts(search_term): load_parts reads every
\* part in part_number order, filter_parts keeps all of them for an empty
\* or absent term and the matching ones otherwise, and the view is handed
\* the list.  result is the ids of the rows shown, in order.
SearchParts(search_term) ==
    /\ schema = "parts"
    /\ last' = [Shown(Returned(Call("search_parts", 0, 0, None, "ok"),
          IF search_term = None \/ search_term = << << >> >>
          THEN OrderByPartNumber(DOMAIN parts)
          ELSE SelectSeq(OrderByPartNumber(DOMAIN parts),
                         LAMBDA i : FilterParts(parts[i], search_term[1]))),
          "none", TRUE) EXCEPT !.search_term = search_term]
    /\ UNCHANGED <<schema, now, instances, parts, products, transactions, sqlite_sequence>>

\* The texts of the stores searched and the terms searched for.
SearchCodes == {<<"b">>, <<"B">>, <<"n", "o">>}

SearchTexts == {None, << << >> >>, << <<"N", "O">> >>, << <<"b">> >>}

SearchTerms == {None, << << >> >>, << <<"B">> >>, << <<"n", "o">> >>, << <<"o", "n">> >>}

NextSearch == \E search_term \in SearchTerms : SearchParts(search_term)

\* A parts store of up to MaxItems parts with their texts; description and
\* category are '' by default and NULL where None was passed.
InitSearch ==
    /\ schema = "parts"
    /\ \E n \in 0..MaxItems :
          \E code \in [1..n -> SearchCodes], description \in [1..n -> SearchTexts],
             category \in [1..n -> SearchTexts] :
              /\ \A i, j \in 1..n : code[i] = code[j] => i = j
              /\ parts = [i \in 1..n |->
                            [part_number |-> code[i], description |-> description[i],
                             category |-> category[i], current_stock |-> 0,
                             min_stock |-> 1, unit_cost |-> 1]]
              /\ sqlite_sequence = [parts |-> n, products |-> 0, transactions |-> 0]
    /\ products = << >>
    /\ transactions = << >>
    /\ now = 0
    /\ instances = << >>
    /\ last = Call("init", 0, 0, None, "ok")

SpecSearch == InitSearch /\ [][NextSearch]_vars

\* ------------------------------------------- products: model instances
\* A Product object holds its own copy of the row's columns; its methods
\* read and write that copy and save() writes the whole copy back.  The id
\* attribute is None on a new object, the row's key on a loaded one, and
\* after create() whatever execute_query returned.
Handles == 1..MaxInstances

NoId == [kind |-> "None", n |-> 0]

IntId(n) == [kind |-> "int", n |-> n]

\* Database.execute_query(query, params, commit = True): fetch_all is True
\* by default, so an INSERT returns cursor.fetchall(), the empty list, and
\* cursor.lastrowid is never reached.
ExecuteQueryInsert == [kind |-> "list", n |-> 0]

\* The instances with the object `inst` bound to `handle`.
Held(handle, inst) ==
    [h \in DOMAIN instances \cup {handle} |->
        IF h = handle THEN inst ELSE instances[h]]

\* The call, a method of the object `handle`.
On(call, handle) == [call EXCEPT !.handle = handle]

\* Product(**kwargs): a new object, nothing written.
NewProduct(handle, name, quantity, min_quantity, cost) ==
    /\ schema = "products"
    /\ instances' = Held(handle,
          [id |-> NoId,
           row |-> [name |-> name, quantity |-> quantity,
                    min_quantity |-> min_quantity, cost |-> cost]])
    /\ last' = On(Coded(Call("Product", 0, quantity, None, "ok"), name), handle)
    /\ UNCHANGED <<schema, now, parts, products, transactions, sqlite_sequence>>

\* BaseModel.get_by_id(id): a new object holding the row, or None.
GetById(handle, id) ==
    /\ schema = "products"
    /\ IF id \in DOMAIN products
       THEN /\ instances' = Held(handle, [id |-> IntId(id), row |-> products[id]])
            /\ last' = On(Call("get_by_id", id, 0, None, "ok"), handle)
            /\ UNCHANGED <<schema, now, parts, products, transactions, sqlite_sequence>>
       ELSE /\ last' = On(Call("get_by_id", id, 0, None, "None"), handle)
            /\ UNCHANGED <<schema, now, instances, parts, products, transactions,
                           sqlite_sequence>>

\* BaseModel.save: create() when id is None, update() otherwise.
Creates(inst) == inst.id.kind = "None"

\* BaseModel.update binds self.id to WHERE id = ?: sqlite3 refuses a list
\* (ProgrammingError) before anything is written.
UpdateRaises(inst) == inst.id.kind = "list"

\* The products table after inst.save() that did not raise: create()
\* inserts the copy, update() overwrites every column of the row id names
\* (no row when there is none).
ProductsAfterSave(inst) ==
    IF Creates(inst)
    THEN InsertedProduct(inst.row.name, inst.row.quantity, inst.row.min_quantity,
                         inst.row.cost)
    ELSE IF inst.id.n \in DOMAIN products
    THEN [products EXCEPT ![inst.id.n] = inst.row]
    ELSE products

\* The object after its save(): create() assigns self.id.
Saved(inst) ==
    IF Creates(inst) THEN [inst EXCEPT !.id = ExecuteQueryInsert] ELSE inst

\* The id a save that did not raise is recorded under.
SavedId(inst) == IF Creates(inst) THEN LastRowId("products") ELSE inst.id.n

\* An object's method raised before or instead of writing.
Raises(handle, op, quantity, unit_price, outcome) ==
    /\ last' = On(Call(op, 0, quantity, unit_price, outcome), handle)
    /\ UNCHANGED <<schema, now, parts, products, transactions, sqlite_sequence>>

\* product.save().
Save(handle) ==
    /\ schema = "products"
    /\ handle \in DOMAIN instances
    /\ Creates(instances[handle]) => sqlite_sequence.products < MaxItems
    /\ IF UpdateRaises(instances[handle])
       THEN /\ Raises(handle, "Product.save", 0, None, "ProgrammingError")
            /\ UNCHANGED instances
       ELSE /\ products' = ProductsAfterSave(instances[handle])
            /\ sqlite_sequence' =
                  IF Creates(instances[handle])
                  THEN [sqlite_sequence EXCEPT !.products = @ + 1]
                  ELSE sqlite_sequence
            /\ instances' = Held(handle, Saved(instances[handle]))
            /\ last' = On(Call("Product.save", SavedId(instances[handle]), 0, None,
                               "ok"), handle)
            /\ UNCHANGED <<schema, now, parts, transactions>>

\* The object with its quantity attribute moved by `amount`.
Moved(inst, amount) == [inst EXCEPT !.row.quantity = @ + amount]

\* The writes of add_stock / remove_stock on the object `inst`, whose
\* quantity attribute has been changed already: self.save(), then
\* Transaction(product_id = self.id, ...).save().  An object whose id is a
\* list fails in save(); a new object is inserted by save() and then fails
\* in the Transaction's INSERT, which cannot bind its id.
StockWrites(handle, op, inst, transaction_type, quantity, unit_price, records) ==
    /\ Creates(inst) => sqlite_sequence.products < MaxItems
    /\ IF UpdateRaises(inst)
       THEN /\ Raises(handle, op, quantity, unit_price, "ProgrammingError")
            /\ instances' = Held(handle, inst)
       ELSE IF Creates(inst) /\ records
       THEN /\ products' = ProductsAfterSave(inst)
            /\ sqlite_sequence' = [sqlite_sequence EXCEPT !.products = @ + 1]
            /\ instances' = Held(handle, Saved(inst))
            /\ last' = On(Call(op, LastRowId("products"), quantity, unit_price,
                               "ProgrammingError"), handle)
            /\ UNCHANGED <<schema, now, parts, transactions>>
       ELSE /\ products' = ProductsAfterSave(inst)
            /\ instances' = Held(handle, Saved(inst))
            /\ IF records
               THEN /\ transactions' = Append(transactions,
                          ProductTransactionRow(inst.id.n, transaction_type, quantity,
                                                unit_price[1]))
                    /\ sqlite_sequence' =
                          [sqlite_sequence EXCEPT !.transactions = @ + 1]
               ELSE /\ transactions' = transactions
                    /\ sqlite_sequence' =
                          IF Creates(inst)
                          THEN [sqlite_sequence EXCEPT !.products = @ + 1]
                          ELSE sqlite_sequence
            /\ last' = On(Call(op, SavedId(inst), quantity, unit_price, "ok"), handle)
            /\ UNCHANGED <<schema, now, parts>>

\* product.add_stock(quantity, unit_price) on an object the caller holds.
ProductAddStock(handle, quantity, unit_price) ==
    /\ schema = "products"
    /\ handle \in DOMAIN instances
    /\ sqlite_sequence.transactions < MaxTx
    /\ instances[handle].row.quantity + quantity <= MaxQuantity
    /\ IF AddStockRejects(quantity)
       THEN /\ Raises(handle, "Product.add_stock", quantity, <<unit_price>>,
                      "ValueError")
            /\ UNCHANGED instances
       ELSE StockWrites(handle, "Product.add_stock",
                        Moved(instances[handle], quantity), "IN", quantity,
                        <<unit_price>>, TRUE)

\* product.remove_stock(quantity, unit_price = None) on an object the
\* caller holds: the stock is checked against the object's own quantity.
ProductRemoveStock(handle, quantity, unit_price) ==
    /\ schema = "products"
    /\ handle \in DOMAIN instances
    /\ sqlite_sequence.transactions < MaxTx
    /\ IF RemoveStockRejects(quantity)
       THEN /\ Raises(handle, "Product.remove_stock", quantity, unit_price,
                      "ValueError")
            /\ UNCHANGED instances
       ELSE IF InsufficientStock(quantity, instances[handle].row.quantity)
       THEN /\ Raises(handle, "Product.remove_stock", quantity, unit_price,
                      "Insufficient")
            /\ UNCHANGED instances
       ELSE StockWrites(handle, "Product.remove_stock",
                        Moved(instances[handle], 0 - quantity), "OUT", quantity,
                        unit_price, RecordsRemoval(unit_price))

\* Transaction.__init__ storing the unit price as the total.
TransactionInitUnitTotal(product_id, transaction_type, quantity, unit_price) ==
    [id |-> LastRowId("transactions"), product_id |-> product_id,
     transaction_type |-> transaction_type,
     quantity |-> IF quantity = None THEN 0 ELSE quantity[1],
     unit_price |-> IF unit_price = None THEN 0 ELSE unit_price[1],
     total_price |-> IF unit_price = None THEN 0 ELSE unit_price[1],
     created_at |-> DatetimeNow]

\* Transaction.__init__(**kwargs) called without total_price: quantity and
\* unit_price default to 0, and total_price is float(unit_price) *
\* int(quantity) when both were passed and the default 0 otherwise.
TransactionInit(product_id, transaction_type, quantity, unit_price) ==
    [id |-> LastRowId("transactions"), product_id |-> product_id,
     transaction_type |-> transaction_type,
     quantity |-> IF quantity = None THEN 0 ELSE quantity[1],
     unit_price |-> IF unit_price = None THEN 0 ELSE unit_price[1],
     total_price |-> IF quantity # None /\ unit_price # None
                     THEN unit_price[1] * quantity[1] ELSE 0,
     created_at |-> DatetimeNow]

\* Transaction(product_id = ..., transaction_type = ..., ...).save().
NewTransactionSave(product_id, transaction_type, quantity, unit_price) ==
    /\ schema = "products"
    /\ sqlite_sequence.transactions < MaxTx
    /\ transactions' = Append(transactions,
          TransactionInit(product_id, transaction_type, quantity, unit_price))
    /\ sqlite_sequence' = [sqlite_sequence EXCEPT !.transactions = @ + 1]
    /\ last' = Call("Transaction.save", product_id,
                    IF quantity = None THEN 0 ELSE quantity[1], unit_price, "ok")
    /\ UNCHANGED <<schema, now, instances, parts, products>>

\* The quantity of the objects a caller constructs.
NewQuantities == {1}

NextInstances ==
    \/ \E h \in Handles, q \in NewQuantities, m \in MinStocks :
          NewProduct(h, "A", q, m, 1)
    \/ \E h \in Handles, id \in Ids : GetById(h, id)
    \/ \E h \in Handles : Save(h)
    \/ \E h \in Handles, q \in Quantities, p \in UnitPrices \ {None} :
          ProductAddStock(h, q, p[1])
    \/ \E h \in Handles, q \in Quantities, p \in UnitPrices :
          ProductRemoveStock(h, q, p)

InitInstances == Init /\ schema = "products"

SpecInstances == InitInstances /\ [][NextInstances]_vars

\* The products variant with Transaction objects saved directly as well.
NextTransactions ==
    \/ NextProducts
    \/ \E id \in Ids, q \in {None, <<2>>}, p \in UnitPrices :
          NewTransactionSave(id, "IN", q, p)

SpecTransactions == InitInstances /\ [][NextTransactions]_vars

\* ------------------------------------------------- the process dying
\* The process dies inside a compound operation; what the store holds
\* afterwards is what had been committed.
\* Inside _record_transaction, between the INSERT and the UPDATE: both are
\* on one connection and neither is committed, so nothing persists.
CrashInRecordTransaction(part_id, transaction_type, quantity) ==
    /\ schema = "parts"
    /\ quantity > 0
    /\ Fails(IF transaction_type = "IN" THEN "stock_in" ELSE "stock_out",
             part_id, quantity, <<3>>, "crash")

\* Inside delete_part, between the two DELETEs: nothing is committed.
CrashInDeletePart(part_id) ==
    /\ schema = "parts"
    /\ Fails("delete_part", part_id, 0, None, "crash")

\* Inside add_stock / remove_stock, between self.save() and
\* transaction.save(): self.save() has committed the new quantity.
CrashInAddStock(product_id, quantity, unit_price) ==
    /\ schema = "products"
    /\ product_id \in DOMAIN products
    /\ ~AddStockRejects(quantity)
    /\ products[product_id].quantity + quantity <= MaxQuantity
    /\ SaveQuantity(product_id, products[product_id].quantity + quantity)
    /\ last' = Call("add_stock", product_id, quantity, <<unit_price>>, "crash")
    /\ UNCHANGED <<schema, now, instances, parts, transactions, sqlite_sequence>>

CrashInRemoveStock(product_id, quantity, unit_price) ==
    /\ schema = "products"
    /\ product_id \in DOMAIN products
    /\ ~RemoveStockRejects(quantity)
    /\ ~InsufficientStock(quantity, products[product_id].quantity)
    /\ RecordsRemoval(unit_price)
    /\ SaveQuantity(product_id, products[product_id].quantity - quantity)
    /\ last' = Call("remove_stock", product_id, quantity, unit_price, "crash")
    /\ UNCHANGED <<schema, now, instances, parts, transactions, sqlite_sequence>>

Crash ==
    \/ \E id \in Ids, ty \in {"IN", "OUT"}, q \in Quantities :
          CrashInRecordTransaction(id, ty, q)
    \/ \E id \in Ids : CrashInDeletePart(id)
    \/ \E id \in Ids, q \in Quantities, p \in UnitPrices \ {None} :
          CrashInAddStock(id, q, p[1])
    \/ \E id \in Ids, q \in Quantities, p \in UnitPrices :
          CrashInRemoveStock(id, q, p)

NextCrash ==
    \/ Next
    \/ Crash

SpecCrash == Init /\ [][NextCrash]_vars

\* ================================================================ claims
\* The items of the store, their stock level and the item a transaction
\* row references, whichever the variant.
Items == IF schema = "parts" THEN parts ELSE products

Quantity(i) == IF schema = "parts" THEN parts[i].current_stock ELSE products[i].quantity

\* The items and stock levels the step leaves.
ItemsAfter == IF schema = "parts" THEN parts' ELSE products'

QuantityAfter(i) ==
    IF schema = "parts" THEN parts'[i].current_stock ELSE products'[i].quantity

ItemOf(t) == IF schema = "parts" THEN t.part_id ELSE t.product_id

TransactionsOf(i) == SelectSeq(transactions, LAMBDA t : ItemOf(t) = i)

\* Sum of the IN quantities minus sum of the OUT quantities of item i.
RECURSIVE LedgerSum(_, _)
LedgerSum(rows, i) ==
    IF rows = << >> THEN 0
    ELSE (IF ItemOf(Head(rows)) # i THEN 0
          ELSE IF Head(rows).transaction_type = "IN" THEN Head(rows).quantity
          ELSE 0 - Head(rows).quantity) + LedgerSum(Tail(rows), i)

CreateOps == {"insert_part", "save_part:insert", "add_product"}

UpdateOps == {"update_part", "save_part:update", "update_product"}

DeleteOps == {"delete_part", "delete_selected_part", "delete_product"}

StockInOps == {"stock_in", "add_stock"}

StockOutOps == {"stock_out", "remove_stock"}

Succeeded(call) == call.outcome \in {"ok", "True"}

\* C1 (as claimed; the code breaks it): in every reachable state each
\* existing item's stored quantity equals the sum of the quantities of its
\* IN transactions minus the sum of the quantities of its OUT transactions.
C1_LedgerInvariant ==
    \A i \in DOMAIN Items : Quantity(i) = LedgerSum(transactions, i)

\* C2 (as claimed; the code breaks it): right after an item is created
\* with starting quantity q > 0 the item holds q and has exactly one
\* transaction, IN, of quantity q, referenced "INITIAL"; created with 0 it
\* has no transaction; and such a creation is not turned away.
C2_SeededCreation ==
    /\ ~(last.op = "insert_part" /\ last.outcome = "OperationalError")
    /\ (last.op \in CreateOps /\ Succeeded(last)) =>
          /\ last.id \in DOMAIN Items
          /\ Quantity(last.id) = last.quantity
          /\ IF last.quantity > 0
             THEN /\ Len(TransactionsOf(last.id)) = 1
                  /\ TransactionsOf(last.id)[1].transaction_type = "IN"
                  /\ TransactionsOf(last.id)[1].quantity = last.quantity
                  /\ schema = "parts" =>
                        TransactionsOf(last.id)[1].reference = "INITIAL"
             ELSE last.quantity = 0 => TransactionsOf(last.id) = << >>

\* C3 (as claimed; the code breaks it): no update call (store update, part
\* form save, product form update) changes the stored quantity of any item.
C3_UpdateKeepsQuantity ==
    [][last'.op \in UpdateOps =>
          \A i \in DOMAIN Items :
              i \in DOMAIN ItemsAfter /\ QuantityAfter(i) = Quantity(i)]_vars

\* C4 (as claimed; the code breaks it): every successful stock addition or
\* removal appends exactly one transaction of the matching kind and
\* quantity for that item, whether or not a unit price was passed.
C4_StockOpRecordsTransaction ==
    [][(last'.op \in StockInOps \cup StockOutOps /\ Succeeded(last')) =>
          /\ Len(transactions') = Len(transactions) + 1
          /\ SubSeq(transactions', 1, Len(transactions)) = transactions
          /\ ItemOf(transactions'[Len(transactions')]) = last'.id
          /\ transactions'[Len(transactions')].quantity = last'.quantity
          /\ transactions'[Len(transactions')].transaction_type =
                (IF last'.op \in StockInOps THEN "IN" ELSE "OUT")]_vars

\* C5 (as claimed; the code breaks it): when the process dies between the
\* two writes of a compound operation, the persisted store equals the
\* store before the operation.
C5_CrashLeavesStoreUnchanged ==
    [][last'.outcome = "crash" => store' = store]_vars

\* C6 (as claimed; the code breaks it): after a successful delete of item
\* i no transaction references i.
C6_DeleteRemovesTransactions ==
    (last.op \in DeleteOps /\ Succeeded(last)) => TransactionsOf(last.id) = << >>

\* C7 (as claimed; the code breaks it): in every reachable state every
\* stored transaction references an item that exists.
C7_NoOrphanTransactions ==
    \A n \in 1..Len(transactions) : ItemOf(transactions[n]) \in DOMAIN Items

\* C8 (as claimed; the code breaks it): stock_in, or stock_out with or
\* without a unit_price, of a positive quantity on an id that does not
\* exist fails with a not-found error and leaves the store unchanged.
C8_UnknownItemRejected ==
    [][(last'.op \in {"stock_in", "stock_out"} /\ last'.outcome # "crash"
            /\ last'.quantity > 0 /\ last'.id \notin DOMAIN parts) =>
          /\ last'.outcome = "NotFound"
          /\ store' = store]_vars

\* The stock operation of the step was run on the item it names: the
\* products variant runs add_stock / remove_stock on a loaded product.
StockOpRan(call) ==
    /\ call.op \in StockInOps \cup StockOutOps
    /\ call.outcome # "None"

Overdraws ==
    /\ last'.op \in StockOutOps
    /\ last'.outcome # "crash"
    /\ last'.id \in DOMAIN Items
    /\ last'.quantity > 0
    /\ last'.quantity > Quantity(last'.id)

\* The step recorded one OUT transaction of the call's quantity for its
\* item and took that quantity off the item.
RecordedRemoval ==
    /\ Succeeded(last')
    /\ Len(transactions') = Len(transactions) + 1
    /\ SubSeq(transactions', 1, Len(transactions)) = transactions
    /\ ItemOf(transactions'[Len(transactions')]) = last'.id
    /\ transactions'[Len(transactions')].transaction_type = "OUT"
    /\ transactions'[Len(transactions')].quantity = last'.quantity
    /\ last'.id \in DOMAIN ItemsAfter
    /\ QuantityAfter(last'.id) = Quantity(last'.id) - last'.quantity

Code(i) == IF schema = "parts" THEN parts[i].part_number ELSE products[i].name

CodeAfter(i) == IF schema = "parts" THEN parts'[i].part_number ELSE products'[i].name

\* The step's call was given a code that an existing item other than
\* `self` carries.
CodeTaken(self) ==
    /\ last'.code # None
    /\ \E i \in DOMAIN Items : i # self /\ Code(i) = last'.code[1]

\* How a call reports a duplicate code: insert_part raises ValueError,
\* update_part lets IntegrityError through, save_part shows the error and
\* returns False.
DuplicateCodeErrors == {"ValueError", "IntegrityError", "False"}

\* C11 (as claimed; the code breaks it): creating an item whose code equals
\* the code of an existing item fails with a duplicate-code error and
\* leaves the items and the transactions as they were, for parts and for
\* products.
C11_DuplicateCodeRejected ==
    [][(last'.op \in CreateOps /\ CodeTaken(0)) =>
          /\ last'.outcome \in DuplicateCodeErrors
          /\ store' = store]_vars

\* How a delete reports that there was nothing to delete: delete_part
\* returns False, delete_product returns without deleting.
NothingDeleted == {"False", "None"}

\* C12 (as claimed; the code breaks it): deleting an existing item id
\* reports success and removes the item; deleting an id that does not exist
\* (the same id again, or one never handed out) reports that nothing was
\* deleted, raises nothing and leaves every item and transaction unchanged.
C12_IdempotentDelete ==
    [][(last'.op \in DeleteOps /\ last'.outcome # "crash") =>
          IF last'.id \in DOMAIN Items
          THEN /\ Succeeded(last')
               /\ last'.id \notin DOMAIN ItemsAfter
          ELSE /\ last'.outcome \in NothingDeleted
               /\ store' = store]_vars

\* Transaction row t is in the log the step leaves, every column as it was.
Kept(t) == \E m \in 1..Len(transactions') : transactions'[m] = t

\* The step deleted the item that transaction row t references.
OwnerDeleted(t) ==
    /\ ItemOf(t) \in DOMAIN Items
    /\ ItemOf(t) \notin DOMAIN ItemsAfter

\* C13 (as claimed; the code breaks it): a recorded transaction keeps its
\* item, kind, quantity, unit_price and created_at in every later state,
\* and leaves the store only in a step that deletes the item it belongs to.
C13_TransactionsAppendOnly ==
    [][\A n \in 1..Len(transactions) :
          Kept(transactions[n]) \/ OwnerDeleted(transactions[n])]_vars

\* list_transactions of item i, whichever the variant.
ListTransactions(i) ==
    IF schema = "parts" THEN GetPartTransactions(i) ELSE GetByProduct(i)

\* C14 (as claimed; the code breaks it): the listing of an item's
\* transactions is newest first: of any two of its transactions the one
\* recorded later (the higher id) comes before the one recorded earlier,
\* also when the two were recorded back to back.
C14_NewestFirst ==
    \A i \in DOMAIN Items :
        \A a, b \in 1..Len(ListTransactions(i)) :
            a < b => ListTransactions(i)[a].id > ListTransactions(i)[b].id

\* The unit cost item i is stored with: a part's unit_cost, a product's cost.
UnitCost(i) == IF schema = "parts" THEN parts[i].unit_cost ELSE products[i].cost

\* The step is a successful removal called without a unit_price.
RemovedWithoutPrice ==
    /\ last'.op \in StockOutOps
    /\ Succeeded(last')
    /\ last'.unit_price = None
    /\ last'.id \in DOMAIN Items

\* C15 (as claimed; the code breaks it): a stock-out called without a
\* unit_price still records its OUT transaction, and the unit_price of that
\* transaction is the unit cost the item is stored with when the call is
\* made.
C15_DefaultUnitPrice ==
    [][RemovedWithoutPrice =>
          /\ Len(transactions') = Len(transactions) + 1
          /\ ItemOf(transactions'[Len(transactions')]) = last'.id
          /\ transactions'[Len(transactions')].transaction_type = "OUT"
          /\ transactions'[Len(transactions')].unit_price = UnitCost(last'.id)]_vars

\* The minimum level item i is stored with.
MinQuantity(i) ==
    IF schema = "parts" THEN parts[i].min_stock ELSE products[i].min_quantity

\* The status of an item holding `quantity` with the minimum `min_quantity`.
Status(quantity, min_quantity) ==
    IF quantity <= 0 THEN "out of stock"
    ELSE IF quantity <= min_quantity THEN "low stock"
    ELSE "in stock"

StatusOf(i) == Status(Quantity(i), MinQuantity(i))

\* The status a tag of the part list stands for, and the one a label of the
\* product list or of the report stands for.
TagStatus(tag) ==
    IF tag = "out_of_stock" THEN "out of stock"
    ELSE IF tag = "low_stock" THEN "low stock"
    ELSE "in stock"

LabelStatus(label) ==
    IF label = "Out of Stock" THEN "out of stock"
    ELSE IF label = "Low Stock" THEN "low stock"
    ELSE "in stock"

\* C16 (as claimed; the code breaks it): every place that classifies the
\* items gives each item the status "out of stock" iff quantity <= 0, "low
\* stock" iff 0 < quantity <= min_quantity and "in stock" otherwise: the
\* tags of the part list, the low-stock section of the parts report, the
\* status column of the product list and of the products report, and the
\* counts of the dashboard.
C16_StatusClassification ==
    /\ last.op = "update_parts_list" =>
          \A i \in DOMAIN Items : TagStatus(last.result[1][i]) = StatusOf(i)
    /\ (last.op = "report_controller_inventory_report" /\ Succeeded(last)) =>
          last.result[1] = {i \in DOMAIN Items : StatusOf(i) = "low stock"}
    /\ last.op \in {"update_products", "report_generator_inventory_report"} =>
          \A i \in DOMAIN Items : LabelStatus(last.result[1][i]) = StatusOf(i)
    /\ last.op = "update_dashboard" =>
          /\ last.result[1].low_stock =
                Cardinality({i \in DOMAIN Items : StatusOf(i) = "low stock"})
          /\ last.result[1].out_of_stock =
                Cardinality({i \in DOMAIN Items : StatusOf(i) = "out of stock"})

LowStockOps == {"get_low_stock", "get_low_stock_products"}

\* The items list_low_stock is to select for the threshold of the last call.
LowStockExpected ==
    IF last.threshold # None
    THEN {i \in DOMAIN Items : Quantity(i) < last.threshold[1]}
    ELSE {i \in DOMAIN Items : Quantity(i) < MinQuantity(i)}

\* C17 (as claimed; the code breaks it): a low-stock query, of parts or of
\* products, returns exactly the items with quantity < threshold when a
\* threshold is given (0 included), otherwise exactly those with quantity <
\* min_quantity, each once, ordered by quantity ascending.
C17_LowStockSelection ==
    last.op \in LowStockOps =>
        /\ Succeeded(last)
        /\ {last.result[1][k] : k \in 1..Len(last.result[1])} = LowStockExpected
        /\ Len(last.result[1]) = Cardinality(LowStockExpected)
        /\ \A a, b \in 1..Len(last.result[1]) :
              a < b => Quantity(last.result[1][a]) <= Quantity(last.result[1][b])

\* How an update reports that the id names no item: update_part returns
\* False.
NotFoundReports == {"False", "NotFound"}

\* C18 (as claimed; the code breaks it): an update of an id that does not
\* exist reports not-found and changes nothing; an update that renames an
\* item to the code of a different item fails with a duplicate-code error
\* and leaves the items and the transactions as they were.
C18_UpdateRejections ==
    [][(last'.op \in UpdateOps /\ last'.outcome # "crash") =>
          /\ last'.id \notin DOMAIN Items =>
                (last'.outcome \in NotFoundReports /\ store' = store)
          /\ (last'.id \in DOMAIN Items /\ CodeTaken(last'.id)) =>
                (last'.outcome \in DuplicateCodeErrors /\ store' = store)]_vars

\* The calls that add an item, as they are labelled when they are turned
\* away before anything is written and when they go through.
AddItemOps == CreateOps \cup {"save_part", "on_save"}

\* C19 (as claimed; the code breaks it): adding an item with an empty code
\* or a negative starting quantity is turned away and writes nothing, and
\* no stored item ever has a negative unit cost or minimum level.
C19_AddItemValidation ==
    /\ [](\A i \in DOMAIN Items : UnitCost(i) >= 0 /\ MinQuantity(i) >= 0)
    /\ [][(last'.op \in AddItemOps
             /\ (last'.code = <<"">> \/ last'.quantity < 0)) =>
             /\ ~Succeeded(last')
             /\ store' = store]_vars

\* The step is a successful stock movement of an existing item that was
\* called with a unit_price.
MovedWithPrice ==
    /\ last'.op \in StockInOps \cup StockOutOps
    /\ Succeeded(last')
    /\ last'.unit_price # None
    /\ last'.id \in DOMAIN Items

\* C20 (as claimed; the code breaks it): every recorded transaction has a
\* non-negative unit_price; a stock movement called with a unit_price
\* records exactly that price; and an update of an item leaves the
\* unit_price of every transaction already recorded as it was.
C20_UnitPriceRecorded ==
    /\ [](\A n \in 1..Len(transactions) : transactions[n].unit_price >= 0)
    /\ [][MovedWithPrice =>
             /\ Len(transactions') = Len(transactions) + 1
             /\ transactions'[Len(transactions')].unit_price
                   = last'.unit_price[1]]_vars
    /\ [][last'.op \in UpdateOps =>
             /\ Len(transactions') = Len(transactions)
             /\ \A n \in 1..Len(transactions) :
                   transactions'[n].unit_price
                      = transactions[n].unit_price]_vars

\* The handlers of the two controllers that write to the store, by the
\* names their calls are recorded under.
HandlerOps ==
    {"save_part", "save_part:insert", "save_part:update", "delete_selected_part",
     "add_product", "update_product", "delete_product", "add_stock", "remove_stock"}

\* The step is a handler's call that did what it was called for: it
\* reports success, and the item it updates, deletes or moves exists.
Mutated ==
    /\ last'.op \in HandlerOps
    /\ Succeeded(last')
    /\ last'.op \in CreateOps \/ last'.id \in DOMAIN Items

\* C21 (as claimed; the code breaks it): a handler that creates, updates or
\* deletes an item or moves stock reloads the view before it returns
\* whenever the mutation went through, and raises no success dialog when it
\* did not.
C21_RefreshAfterMutation ==
    [][last'.op \in HandlerOps =>
          /\ Mutated => last'.refreshed
          /\ ~Mutated => last'.messagebox # "showinfo"]_vars

\* The text `term` occurs in the optional text `field`, case ignored; a
\* field that holds nothing contains no text.
Contains(field, term) == field # None /\ In(Lower(term), Lower(field[1]))

\* The parts a search for `term` is to return.
Matching(term) ==
    {i \in DOMAIN parts :
        \/ Contains(<<parts[i].part_number>>, term)
        \/ Contains(parts[i].description, term)
        \/ Contains(parts[i].category, term)}

Searched == IF last.search_term = None THEN << >> ELSE last.search_term[1]

\* C22 (as claimed; the code breaks it): a search returns each part whose
\* part_number, description or category contains the term, case ignored,
\* once and no other part, in ascending part_number order; an empty or
\* absent term returns every part in that order.
C22_Search ==
    last.op = "search_parts" =>
        /\ {last.result[1][k] : k \in 1..Len(last.result[1])} = Matching(Searched)
        /\ \A a, b \in 1..Len(last.result[1]) : a < b =>
              TextLess(parts[last.result[1][a]].part_number,
                       parts[last.result[1][b]].part_number)

\* Sum over the items `ids` of quantity * unit cost.
RECURSIVE Valuation(_)
Valuation(ids) ==
    IF ids = {} THEN 0
    ELSE LET i == CHOOSE i \in ids : TRUE
         IN  Quantity(i) * UnitCost(i) + Valuation(ids \ {i})

SeededInsert ==
    /\ last'.op = "insert_part"
    /\ last'.quantity > 0
    /\ ~CodeTaken(0)

\* C24 (as claimed; the code breaks it): insert_part with a positive
\* starting stock completes: the seed transaction, written on a second
\* connection while the part's INSERT is uncommitted on the first, is not
\* blocked, and both the part and its seed transaction are stored.
C24_SeededInsertCompletes ==
    [][SeededInsert =>
          /\ Succeeded(last')
          /\ last'.id \in DOMAIN ItemsAfter
          /\ Len(transactions') = Len(transactions) + 1
          /\ ItemOf(transactions'[Len(transactions')]) = last'.id]_vars

\* The step is a stock movement that went through, made on a loaded
\* Product object whose row is stored.
MovedOnInstance ==
    /\ last'.op \in {"Product.add_stock", "Product.remove_stock"}
    /\ Succeeded(last')
    /\ last'.id \in DOMAIN products

\* C25 (as claimed; the code breaks it): every successful add_stock or
\* remove_stock on a Product object changes the stored quantity of its row
\* by exactly the amount moved, whichever object of that row makes it, so
\* that after any sequence of them the stored quantity is the original one
\* plus all that was added minus all that was removed.
C25_NoLostUpdate ==
    [][MovedOnInstance =>
          /\ last'.id \in DOMAIN products'
          /\ products'[last'.id].quantity =
                products[last'.id].quantity
                   + (IF last'.op = "Product.add_stock" THEN last'.quantity
                      ELSE 0 - last'.quantity)]_vars

\* The step is save() called on a Product object.
SavesInstance == last'.op = "Product.save" /\ last'.handle \in DOMAIN instances

\* C26 (as claimed; the code breaks it): save() on a new Product object
\* inserts one row and sets the object's id to the key of that row; save()
\* on an object that has an id succeeds, writes to the row of that id and
\* inserts nothing.
C26_SaveCreatesOnce ==
    [][SavesInstance =>
          /\ Succeeded(last')
          /\ IF instances[last'.handle].id = NoId
             THEN /\ DOMAIN products' = DOMAIN products \cup {LastRowId("products")}
                  /\ LastRowId("products") \notin DOMAIN products
                  /\ instances'[last'.handle].id = IntId(LastRowId("products"))
             ELSE /\ DOMAIN products' = DOMAIN products
                  /\ instances'[last'.handle].id = instances[last'.handle].id]_vars

\* The step is remove_stock called on a Product object.
RemovesOnInstance ==
    /\ last'.op = "Product.remove_stock"
    /\ last'.handle \in DOMAIN instances

\* C27: remove_stock of a positive quantity greater than the product's
\* quantity fails with "Insufficient stock" and leaves the products and the
\* transactions as they were, and a remove_stock that goes through never
\* leaves a negative quantity in the store.
C27_InsufficientStockRejected ==
    [][RemovesOnInstance =>
          /\ (last'.quantity > 0
                /\ last'.quantity > instances[last'.handle].row.quantity) =>
                (last'.outcome = "Insufficient" /\ store' = store)
          /\ (Succeeded(last') /\ last'.id \in DOMAIN products') =>
                products'[last'.id].quantity >= 0]_vars

\* remove_stock was refused for insufficient stock on a loaded object whose
\* row is stored, after an earlier movement was recorded.
C27_Witness ==
    /\ last.op = "Product.remove_stock"
    /\ last.outcome = "Insufficient"
    /\ last.handle \in DOMAIN instances
    /\ instances[last.handle].id.kind = "int"
    /\ instances[last.handle].id.n \in DOMAIN products
    /\ last.quantity > instances[last.handle].row.quantity
    /\ Len(transactions) > 0

\* The transactions of item i after the step.
TransactionsOfAfter(i) == SelectSeq(transactions', LAMBDA t : ItemOf(t) = i)

\* The step is a stock movement or a deletion called for one item.
TouchesOneItem ==
    /\ last'.op \in StockInOps \cup StockOutOps \cup DeleteOps
    /\ last'.outcome # "crash"

\* C28: a stock-in, a stock-out or a deletion called for one item leaves
\* every other item stored with the same fields and quantity and the same
\* transactions.
C28_OtherItemsUntouched ==
    [][TouchesOneItem =>
          \A i \in DOMAIN Items : i # last'.id =>
              /\ i \in DOMAIN ItemsAfter
              /\ ItemsAfter[i] = Items[i]
              /\ TransactionsOfAfter(i) = TransactionsOf(i)]_vars

\* An item was deleted while another item that has transactions is stored.
C28_Witness ==
    /\ last.op \in DeleteOps
    /\ Succeeded(last)
    /\ last.id \notin DOMAIN Items
    /\ \E i \in DOMAIN Items : i # last.id /\ TransactionsOf(i) # << >>

\* C29: in the products variant every stored transaction has total_price =
\* quantity * unit_price, whether add_stock or remove_stock recorded it or
\* a Transaction built without a total_price was saved.
C29_TotalPrice ==
    schema = "products" =>
        \A n \in 1..Len(transactions) :
            transactions[n].total_price
               = transactions[n].quantity * transactions[n].unit_price

\* A transaction recorded by add_stock or remove_stock and one built
\* without a total_price, of more than one unit and a price above zero,
\* are both stored.
C29_Witness ==
    /\ schema = "products"
    /\ Len(transactions) = 2
    /\ last.op = "Transaction.save"
    /\ last.quantity > 1
    /\ last.unit_price # None
    /\ transactions[2].total_price > transactions[2].unit_price
    /\ transactions[1].transaction_type \in {"IN", "OUT"}
    /\ transactions[1].product_id \in DOMAIN products
    /\ transactions[1].quantity = 1

\* C30: update_part given an empty update_data returns False and writes
\* nothing; update_part that goes through on an existing part leaves every
\* column its update_data does not name, and every other part and every
\* transaction, as it was.
C30_UpdateOnlySupplied ==
    [][last'.op = "update_part" =>
          /\ last'.columns = {} => (last'.outcome = "False" /\ store' = store)
          /\ (Succeeded(last') /\ last'.id \in DOMAIN parts) =>
                /\ DOMAIN parts' = DOMAIN parts
                /\ \A k \in Columns \ last'.columns :
                      parts'[last'.id][k] = parts[last'.id][k]
                /\ \A i \in DOMAIN parts \ {last'.id} : parts'[i] = parts[i]
                /\ transactions' = transactions]_vars

\* update_part changed the unit cost alone of a part that holds stock other
\* than zero, beside a second part.
C30_Witness ==
    /\ last.op = "update_part"
    /\ last.outcome = "True"
    /\ last.columns = {"unit_cost"}
    /\ last.id \in DOMAIN parts
    /\ parts[last.id].current_stock # 0
    /\ Cardinality(DOMAIN parts) = 2
====
